---- MODULE Spec2Model ----
(***************************************************************************)
(* Payment operations agent: the rule-based diagnosis engine              *)
(* (brain/agent.py), the guardrail (guardrails/safety.py) and the two     *)
(* decision cycles that consume them: the dashboard's "Run agent cycle"   *)
(* button (app.py) and the continuous loop (main.py).                     *)
(*                                                                         *)
(* Numbers: confidence scores are kept in hundredths (0.82 is 82), rates  *)
(* and shares are compared by cross-multiplication in percent, so every   *)
(* comparison of the source is decided exactly.  For the counts of the    *)
(* model the float products and quotients of the source compare the same  *)
(* way as the exact ones.                                                  *)
(***************************************************************************)
EXTENDS Integers, Sequences, FiniteSets, TLC

(***************************************************************************)
(* Bounds of the model.                                                    *)
(***************************************************************************)
\* most successful events in the window
MaxSuccess == 17
\* most failed events in the window
MaxFailures == 5
\* most events counted in the volume that are no longer in the window
MaxStale == 1

(***************************************************************************)
(* Program constants.                                                      *)
(***************************************************************************)
\* brain/agent.py, in percent
FAILURE_SPIKE_THRESHOLD == 15
LATENCY_HIGH_MS == 1800
\* brain/agent.py, in percent
BANK_CONCENTRATION_THRESHOLD == 60
\* brain/agent.py, in hundredths
CONFIDENCE_AUTONOMOUS == 80
\* config.py (not part of the sources at hand), in hundredths
CONFIDENCE_THRESHOLD == 80
\* config.py (not part of the sources at hand); scaled to the model's windows
MAX_AUTONOMOUS_VOLUME == 16
\* memory/short_term.py: deque(maxlen=200)
SHORT_TERM_MAXLEN == 200
\* app.py: the dashboard runs no cycle on fewer events than this
MIN_SAMPLE_DASHBOARD == 5
\* brain/agent.py: the engine's own insufficient-sample limit
MIN_SAMPLE_ENGINE == 10

BANKS == <<"HDFC", "ICICI", "SBI", "AXIS", "KOTAK">>
FAILURE_CODES == {"BANK_TIMEOUT", "ISSUER_DOWN", "USER_DECLINED", "NETWORK_ERROR"}
ERROR_CODES == {"SUCCESS"} \cup FAILURE_CODES

\* brain/prompts.py
ACTION_OPTIONS ==
  {"Reroute traffic", "Adjust retry policy", "Suppress failing path",
   "Alert human operators", "Take no action"}

\* average latencies of a window: at and between the two limits the rules use
LatencyValues == {1500, 1650, 1800}

(***************************************************************************)
(* Texts.  A text is a sequence of one-character strings, so that          *)
(* strip(), lower() and the substring tests of get_action_key are computed *)
(* and not assumed.                                                        *)
(***************************************************************************)
Chars(s) ==
  CASE s = "Reroute traffic" ->
         <<"R","e","r","o","u","t","e"," ","t","r","a","f","f","i","c">>
    [] s = "Adjust retry policy" ->
         <<"A","d","j","u","s","t"," ","r","e","t","r","y"," ",
           "p","o","l","i","c","y">>
    [] s = "Suppress failing path" ->
         <<"S","u","p","p","r","e","s","s"," ","f","a","i","l","i","n","g",
           " ","p","a","t","h">>
    [] s = "Alert human operators" ->
         <<"A","l","e","r","t"," ","h","u","m","a","n"," ",
           "o","p","e","r","a","t","o","r","s">>
    [] s = "Take no action" ->
         <<"T","a","k","e"," ","n","o"," ","a","c","t","i","o","n">>

UpperCase ==
  <<"A","B","C","D","E","F","G","H","I","J","K","L","M",
    "N","O","P","Q","R","S","T","U","V","W","X","Y","Z">>
LowerCase ==
  <<"a","b","c","d","e","f","g","h","i","j","k","l","m",
    "n","o","p","q","r","s","t","u","v","w","x","y","z">>

\* str.lower()
lower(a) ==
  [i \in 1..Len(a) |->
     IF \E k \in 1..Len(UpperCase) : UpperCase[k] = a[i]
       THEN LowerCase[CHOOSE k \in 1..Len(UpperCase) : UpperCase[k] = a[i]]
       ELSE a[i]]

\* str.strip()
strip(a) ==
  LET kept == {i \in 1..Len(a) : a[i] # " "}
  IN IF kept = {} THEN <<>>
     ELSE SubSeq(a, CHOOSE i \in kept : \A j \in kept : i <= j,
                    CHOOSE i \in kept : \A j \in kept : j <= i)

\* w in a
Contains(a, w) ==
  \E i \in 1..(Len(a) - Len(w) + 1) : SubSeq(a, i, i + Len(w) - 1) = w


\* get_action_key without lower(): the keywords are matched as written
get_action_key_text_case_sensitive(proposed_action) ==
  LET a == strip(proposed_action)
  IN IF Contains(a, <<"r","e","r","o","u","t","e">>)
          \/ Contains(a, <<"t","r","a","f","f","i","c">>)
       THEN "reroute"
     ELSE IF Contains(a, <<"r","e","t","r","y">>)
       THEN "retry"
     ELSE IF Contains(a, <<"s","u","p","p","r","e","s","s">>)
          \/ Contains(a, <<"f","a","i","l","i","n","g"," ","p","a","t","h">>)
       THEN "suppress"
     ELSE IF Contains(a, <<"a","l","e","r","t">>)
          \/ Contains(a, <<"h","u","m","a","n">>)
          \/ Contains(a, <<"o","p","e","r","a","t","o","r","s">>)
       THEN "alert"
     ELSE "no_action"

\* brain/agent.py get_action_key, on a text
get_action_key_text(proposed_action) ==
  LET a == lower(strip(proposed_action))
  IN IF Contains(a, <<"r","e","r","o","u","t","e">>)
          \/ Contains(a, <<"t","r","a","f","f","i","c">>)
       THEN "reroute"
     ELSE IF Contains(a, <<"r","e","t","r","y">>)
       THEN "retry"
     ELSE IF Contains(a, <<"s","u","p","p","r","e","s","s">>)
          \/ Contains(a, <<"f","a","i","l","i","n","g"," ","p","a","t","h">>)
       THEN "suppress"
     ELSE IF Contains(a, <<"a","l","e","r","t">>)
          \/ Contains(a, <<"h","u","m","a","n">>)
          \/ Contains(a, <<"o","p","e","r","a","t","o","r","s">>)
       THEN "alert"
     ELSE "no_action"

\* get_action_key of each action label, computed once
ActionKeys == [s \in ACTION_OPTIONS |-> get_action_key_text(Chars(s))]

\* get_action_key applied to an action label of the engine
get_action_key(proposed_action) == ActionKeys[proposed_action]

(***************************************************************************)
(* The diagnosis engine.                                                   *)
(***************************************************************************)
\* _format_output with every confidence 0.05 higher
format_output_overconfident(diagnosis, evidence, proposed_action, risk_assessment, confidence_score) ==
  [diagnosis |-> diagnosis,
   evidence |-> evidence,
   proposed_action |-> proposed_action,
   risk_assessment |-> risk_assessment,
   confidence_score |-> confidence_score + 5,
   recommend_human_approval |-> confidence_score + 5 < 80]

\* brain/agent.py _format_output; confidence_score in hundredths
format_output(diagnosis, evidence, proposed_action, risk_assessment, confidence_score) ==
  [diagnosis |-> diagnosis,
   evidence |-> evidence,
   proposed_action |-> proposed_action,
   risk_assessment |-> risk_assessment,
   confidence_score |-> confidence_score,
   recommend_human_approval |-> confidence_score < CONFIDENCE_AUTONOMOUS]

\* an evidence text: its wording and the numbers it cites
Evidence(text, cites) == [text |-> text, cites |-> cites]

\* max(by_bank, key=by_bank.get): a bank with the most failures
TopBank(by_bank) ==
  CHOOSE b \in DOMAIN by_bank : \A c \in DOMAIN by_bank : by_bank[c] <= by_bank[b]

\* by_bank.get(top_bank, 0) if top_bank else 0: the numerator of pct_bank
TopBankFailures(by_bank) ==
  IF DOMAIN by_bank = {} THEN 0 ELSE by_bank[TopBank(by_bank)]

\* rule 2 with a share that must exceed 0.5
UserRelated_strict(failure, user_declined) ==
  failure > 0 /\ user_declined * 100 > 50 * failure

\* rule 2: failure > 0 and user_declined / failure >= 0.5
UserRelated(failure, user_declined) ==
  failure > 0 /\ user_declined * 100 >= 50 * failure

\* rule 3, first branch:
\* pct_bank >= BANK_CONCENTRATION_THRESHOLD or issuer_down >= failure * 0.4
Concentrated(failure, top, issuer_down) ==
  \/ top * 100 >= BANK_CONCENTRATION_THRESHOLD * failure
  \/ issuer_down * 10 >= failure * 4

\* the upgrade on either condition alone
RerouteUpgrade_either(failure, top, issuer_down) ==
  top * 100 >= 70 * failure \/ issuer_down >= 2

\* rule 3, the upgrade: pct_bank >= 0.7 and issuer_down >= 2
RerouteUpgrade(failure, top, issuer_down) ==
  top * 100 >= 70 * failure /\ issuer_down >= 2

\* rule 3, second branch: bank_timeout >= max(2, failure * 0.4)
BankTimeouts(failure, bank_timeout) ==
  bank_timeout >= 2 /\ bank_timeout * 10 >= failure * 4

\* a failure rate that must exceed the threshold
FailureSpike_strict(failure, total) ==
  total > 0 /\ failure * 100 > FAILURE_SPIKE_THRESHOLD * total

\* failure_rate >= FAILURE_SPIKE_THRESHOLD, failure_rate = failure / total
FailureSpike(failure, total) ==
  total > 0 /\ failure * 100 >= FAILURE_SPIKE_THRESHOLD * total

\* rule 4 with the failure-rate test applied to both alternatives
NetworkFailure_spike_only(failure, total, network_error, avg_latency) ==
  /\ FailureSpike(failure, total)
  /\ \/ network_error >= 2 /\ network_error * 100 >= failure * 35
     \/ avg_latency >= LATENCY_HIGH_MS

\* rule 4: network_error >= max(2, failure * 0.35)
\*         or (avg_latency >= LATENCY_HIGH_MS and failure_rate >= threshold)
NetworkFailure(failure, total, network_error, avg_latency) ==
  \/ network_error >= 2 /\ network_error * 100 >= failure * 35
  \/ avg_latency >= LATENCY_HIGH_MS /\ FailureSpike(failure, total)

\* the maximum of two numbers
Max(a, b) == IF a >= b THEN a ELSE b

\* rule 5 with a latency of 1500 ms counted as high
Misconfiguration_from_1500(failure, total, user_declined, avg_latency) ==
  /\ FailureSpike(failure, total)
  /\ avg_latency >= 1500
  /\ ~(user_declined * 100 >= 50 * (IF failure >= 1 THEN failure ELSE 1))

\* rule 5: failure_rate >= threshold and avg_latency > 1500
\*         and not (user_declined / max(failure, 1) >= 0.5)
Misconfiguration(failure, total, user_declined, avg_latency) ==
  /\ FailureSpike(failure, total)
  /\ avg_latency > 1500
  /\ ~(user_declined * 100 >= 50 * Max(failure, 1))

\* an engine that learns: the small-sample rule and the default only, the
\* confidence lowered after a cycle that was escalated
diagnose_and_decide_learning(aggregated, historical) ==
  LET lowered == IF historical # <<>>
                      /\ historical[Len(historical)].outcome = "ESCALATED"
                   THEN 10 ELSE 0
  IN IF aggregated.total_count < MIN_SAMPLE_ENGINE THEN
       format_output("Normal variance (no significant anomaly)",
                     Evidence("Insufficient sample size; no reliable diagnosis.", <<>>),
                     "Take no action", "Low risk; no intervention.", 40 - lowered)
     ELSE
       format_output("Normal variance (no significant anomaly)",
                     Evidence("Success rate, failures in txns; within normal range.",
                              <<aggregated.success_count, aggregated.failure_count,
                                aggregated.total_count>>),
                     "Take no action", "No change; no risk.", 85 - lowered)

\* brain/agent.py diagnose_and_decide
diagnose_and_decide(aggregated, historical) ==
  LET total == aggregated.total_count
      failure == aggregated.failure_count
      error_dist == aggregated.error_code_distribution
      by_bank == aggregated.failures_by_bank
      avg_latency == aggregated.average_latency_ms
      user_declined == error_dist["USER_DECLINED"]
      bank_timeout == error_dist["BANK_TIMEOUT"]
      issuer_down == error_dist["ISSUER_DOWN"]
      network_error == error_dist["NETWORK_ERROR"]
      top == TopBankFailures(by_bank)
      \* the defaults set before the rules
      diagnosis == "Normal variance (no significant anomaly)"
      evidence == Evidence("Success rate, failures in txns; within normal range.",
                           <<aggregated.success_count, failure, total>>)
      proposed_action == "Take no action"
      risk_assessment == "No change; no risk."
      confidence_score == 85
  IN IF total < MIN_SAMPLE_ENGINE THEN
       format_output(diagnosis,
                     Evidence("Insufficient sample size; no reliable diagnosis.", <<>>),
                     "Take no action", "Low risk; no intervention.", 40)
     ELSE IF UserRelated(failure, user_declined) THEN
       format_output("User-related",
                     Evidence("USER_DECLINED accounts for failures", <<user_declined, failure>>),
                     "Take no action",
                     "Automated intervention unlikely to help; could increase friction.",
                     82)
     ELSE IF failure >= 3 /\ Concentrated(failure, top, issuer_down) THEN
       format_output("Bank/issuer degradation",
                     Evidence("Failures concentrated: bank, ISSUER_DOWN",
                              <<top, failure, issuer_down>>),
                     IF RerouteUpgrade(failure, top, issuer_down)
                       THEN "Reroute traffic" ELSE "Suppress failing path",
                     "Suppressing one path reduces exposure; low-medium risk if rollback is available.",
                     IF RerouteUpgrade(failure, top, issuer_down) THEN 82 ELSE 78)
     ELSE IF failure >= 3 /\ BankTimeouts(failure, bank_timeout) THEN
       format_output("Bank/issuer degradation",
                     Evidence("BANK_TIMEOUT of failures", <<bank_timeout, failure>>),
                     "Adjust retry policy",
                     "Retry policy change is reversible; medium risk if backoff is not too aggressive.",
                     75)
     ELSE IF NetworkFailure(failure, total, network_error, avg_latency) THEN
       format_output("Network or system failure",
                     Evidence("NETWORK_ERROR, avg latency, failure rate",
                              <<network_error, avg_latency, failure, total>>),
                     "Alert human operators",
                     "Network/system issues need investigation; autonomous rerouting could mask root cause.",
                     72)
     ELSE IF Misconfiguration(failure, total, user_declined, avg_latency) THEN
       format_output("Retry or routing misconfiguration",
                     Evidence("Elevated failure rate with high latency",
                              <<failure, total, avg_latency>>),
                     "Alert human operators",
                     "Misconfiguration changes are sensitive; recommend human review before changing retry or routing.",
                     68)
     ELSE IF FailureSpike(failure, total) THEN
       format_output("Possible bank/issuer or network issue; unclear from data",
                     Evidence("Failure rate above threshold; error mix",
                              <<failure, total, user_declined, bank_timeout,
                                issuer_down, network_error>>),
                     "Alert human operators",
                     "Uncertain root cause; escalating to avoid wrong intervention.",
                     65)
     ELSE
       format_output(diagnosis, evidence, proposed_action, risk_assessment,
                     confidence_score)

(***************************************************************************)
(* The guardrail.                                                          *)
(***************************************************************************)
\* is_safe refusing a volume equal to the limit
is_safe_exclusive(confidence, vol) ==
  IF confidence < CONFIDENCE_THRESHOLD THEN FALSE
  ELSE IF vol >= MAX_AUTONOMOUS_VOLUME THEN FALSE
  ELSE TRUE

\* is_safe without the volume limit
is_safe_any_volume(confidence, vol) ==
  IF confidence < CONFIDENCE_THRESHOLD THEN FALSE ELSE TRUE

\* guardrails/safety.py is_safe
is_safe(confidence, vol) ==
  IF confidence < CONFIDENCE_THRESHOLD THEN FALSE
  ELSE IF vol > MAX_AUTONOMOUS_VOLUME THEN FALSE
  ELSE TRUE

\* should_escalate with the approval flag read the wrong way round
should_escalate_inverted(agent_result) ==
  ~agent_result.recommend_human_approval

\* guardrails/safety.py should_escalate
should_escalate(agent_result) ==
  \/ agent_result.recommend_human_approval
  \/ agent_result.confidence_score < CONFIDENCE_THRESHOLD


(***************************************************************************)
(* The lesson log and the short-term buffer.                               *)
(***************************************************************************)
\* memory/long_term.py LongTermMemory.retrieve: self.data[-n:]
retrieve(data, n) ==
  IF n = 0 THEN data
  ELSE SubSeq(data, Max(1, Len(data) - n + 1), Len(data))

\* memory/long_term.py get_historical_outcomes
get_historical_outcomes(data, n) == retrieve(data, n)

\* memory/long_term.py store_lesson with a non-empty metadata (the time stamp
\* of the lesson is left out)
Lesson(diagnosis, action, outcome, metadata) ==
  [diagnosis |-> diagnosis, action |-> action, outcome |-> outcome,
   metadata |-> metadata]

\* memory/long_term.py store_lesson with an empty metadata: no metadata key
LessonBare(diagnosis, action, outcome) ==
  [diagnosis |-> diagnosis, action |-> action, outcome |-> outcome]

\* memory/short_term.py remember: append to a deque(maxlen=200)
remember(buffer, incident) ==
  IF Len(buffer) >= SHORT_TERM_MAXLEN
    THEN Append(Tail(buffer), incident)
    ELSE Append(buffer, incident)

(***************************************************************************)
(* Snapshots.  A snapshot is what aggregate_last_60_seconds returns for a  *)
(* window: the counts add up, the failures by bank sum to failure_count.   *)
(* The engine reads failures_by_bank only through its largest count, so    *)
(* the banks of a snapshot are listed by falling failure count.            *)
(***************************************************************************)
RECURSIVE Parts(_, _, _)
\* the ways to split n failures over at most k banks, largest count first,
\* no count above m
Parts(n, m, k) ==
  IF n = 0 THEN {<<>>}
  ELSE IF k = 0 THEN {}
  ELSE UNION {{<<h>> \o t : t \in Parts(n - h, h, k - 1)} :
                h \in 1..(IF n <= m THEN n ELSE m)}

\* the failures_by_bank mappings of a window with f failures
BankMaps ==
  [f \in 0..MaxFailures |->
     {[b \in {BANKS[i] : i \in 1..Len(p)} |->
         p[CHOOSE i \in 1..Len(p) : BANKS[i] = b]] :
        p \in Parts(f, f, Len(BANKS))}]

\* an error_code_distribution: a code without events counts 0, as .get(code, 0)
ErrorDist(success, bank_timeout, issuer_down, user_declined, network_error) ==
  [c \in ERROR_CODES |->
     CASE c = "SUCCESS" -> success
       [] c = "BANK_TIMEOUT" -> bank_timeout
       [] c = "ISSUER_DOWN" -> issuer_down
       [] c = "USER_DECLINED" -> user_declined
       [] c = "NETWORK_ERROR" -> network_error]

\* data_stream/simulator.py aggregate_last_60_seconds: the snapshot of a
\* window with the given error codes, failures by bank and average latency
Snapshot(error_dist, by_bank, avg_latency) ==
  LET failure == error_dist["BANK_TIMEOUT"] + error_dist["ISSUER_DOWN"]
                   + error_dist["USER_DECLINED"] + error_dist["NETWORK_ERROR"]
      success == error_dist["SUCCESS"]
  IN [total_count |-> success + failure,
      success_count |-> success,
      failure_count |-> failure,
      error_code_distribution |-> error_dist,
      failures_by_bank |-> by_bank,
      average_latency_ms |-> IF success + failure = 0 THEN 0 ELSE avg_latency]


(***************************************************************************)
(* State.                                                                  *)
(***************************************************************************)
VARIABLES
  program,       \* which program runs: "app" (dashboard) or "main" (loop);
                 \* "text" when get_action_key is called on its own,
                 \* "events" when aggregate is called on a given list
  pc,            \* "ready": a cycle is requested; "done": it has returned;
                 \* "start": the loop has not built its store yet;
                 \* "aborted": an exception has left the loop
  aggregated,    \* the snapshot of the window the cycle observes
  volume,        \* app: len(st.session_state.events); main: total_volume
  cycle,         \* main: the cycle counter
  agent_result,  \* app: st.session_state.agent_result
  action_taken,  \* app: st.session_state.action_taken
  result,        \* the diagnosis result of the cycle
  lessons,       \* memory/long_term.py: the lesson log
  st_buffer,     \* memory/short_term.py: _buffer
  calls          \* how often each tool and the notifier were invoked

\* the state of a decision cycle
cycleVars == <<program, pc, aggregated, volume, cycle, agent_result,
               action_taken, result, lessons, st_buffer, calls>>

VARIABLES
  text,          \* get_action_key: the text passed as proposed_action
  label,         \* the action label the engine emitted, "None" if none did
  key            \* the key get_action_key returned, "None" before the call

textVars == <<text, label, key>>

VARIABLES
  buffer,        \* app: st.session_state.events; main: _event_buffer
  clock,         \* time.time(), in seconds
  inserted,      \* every event ever appended to the buffer, in order
  snap,          \* the snapshot the last call of aggregate returned
  agg_events,    \* the events passed to that call
  agg_now,       \* the time that call read
  prev_snap,     \* the snapshot the call before it returned
  prev_events,   \* the events passed to the call before it
  prev_now       \* the time the call before it read

aggVars == <<buffer, clock, inserted, snap, agg_events, agg_now,
             prev_snap, prev_events, prev_now>>

VARIABLES
  history,       \* what the last call of get_historical_outcomes returned
  history_n      \* the n of that call, -1 before the first call

histVars == <<history, history_n>>

\* the state outside a decision cycle
auxVars == <<textVars, aggVars, histVars>>

vars == <<cycleVars, auxVars>>

\* the value None of a diagnosis result
NoResult ==
  [diagnosis |-> "None", evidence |-> Evidence("None", <<>>),
   proposed_action |-> "None", risk_assessment |-> "None",
   confidence_score |-> 0, recommend_human_approval |-> TRUE]

\* main.py: the events ingested per cycle, for _ in range(8)
EVENTS_PER_CYCLE == 8

\* most cycles the loop has run before the one observed
MaxPriorCycles == 2

NoCalls ==
  [reroute_traffic |-> 0, suppress_failing_path |-> 0,
   adjust_retry_policy |-> 0, alert_ops |-> 0]

\* the window observed is any window within the bounds that holds at least
\* lo and at most hi events
ObserveWindow(lo, hi) ==
  \E s \in 0..MaxSuccess :
    \E bt \in 0..MaxFailures, id \in 0..MaxFailures,
       ud \in 0..MaxFailures, ne \in 0..MaxFailures :
      /\ bt + id + ud + ne <= MaxFailures
      /\ s + bt + id + ud + ne >= lo
      /\ s + bt + id + ud + ne <= hi
      /\ \E bm \in BankMaps[bt + id + ud + ne], lat \in LatencyValues :
           aggregated = Snapshot(ErrorDist(s, bt, id, ud, ne), bm, lat)

\* The dashboard after init_session_state, with a window simulated; its
\* buffer holds the events of the window and at most MaxStale older ones.
InitApp ==
  /\ program = "app"
  /\ ObserveWindow(0, MaxSuccess + MaxFailures)
  /\ volume \in {aggregated.total_count + k : k \in 0..MaxStale}
  /\ cycle = 0

\* The loop at the top of a cycle, after some earlier cycles.  The window of
\* the cycle holds the events it ingests and none that was never ingested.
InitMain ==
  /\ program = "main"
  /\ cycle \in 0..MaxPriorCycles
  /\ volume = EVENTS_PER_CYCLE * cycle
  /\ ObserveWindow(EVENTS_PER_CYCLE, volume + EVENTS_PER_CYCLE)

\* no text was classified
IdleText == text = <<>> /\ label = "None" /\ key = "None"

\* the clock when the program starts: time.time() is seconds since 1970,
\* far above the 60 seconds of the window
StartClock == 100

\* no snapshot was taken
NoSnap == [window_seconds |-> 0]

\* nothing was ingested and aggregate was never called
IdleAgg ==
  /\ buffer = <<>>
  /\ clock = StartClock
  /\ inserted = <<>>
  /\ snap = NoSnap
  /\ agg_events = <<>>
  /\ agg_now = 0
  /\ prev_snap = NoSnap
  /\ prev_events = <<>>
  /\ prev_now = 0

\* get_historical_outcomes was not called on its own
IdleHist == history = <<>> /\ history_n = -1

IdleAux == IdleText /\ IdleAgg /\ IdleHist

Init ==
  /\ InitApp \/ InitMain
  /\ IdleAux
  /\ pc = "ready"
  /\ agent_result = NoResult
  /\ action_taken = "None"
  /\ result = NoResult
  /\ lessons = <<>>
  /\ st_buffer = <<>>
  /\ calls = NoCalls


(***************************************************************************)
(* The tools and the notifier print a line; the model counts the calls.    *)
(***************************************************************************)
\* tools/routing.py reroute_traffic
reroute_traffic(c) == [c EXCEPT !.reroute_traffic = @ + 1]
\* tools/routing.py suppress_failing_path
suppress_failing_path(c) == [c EXCEPT !.suppress_failing_path = @ + 1]
\* tools/retry.py adjust_retry_policy
adjust_retry_policy(c) == [c EXCEPT !.adjust_retry_policy = @ + 1]
\* tools/notify.py alert_ops
alert_ops(c) == [c EXCEPT !.alert_ops = @ + 1]

\* run_action invoking the tool and the reroute besides
run_action_and_reroute(action_key, c) ==
  reroute_traffic(IF action_key = "reroute" THEN reroute_traffic(c)
                  ELSE IF action_key = "suppress" THEN suppress_failing_path(c)
                  ELSE IF action_key = "retry" THEN adjust_retry_policy(c)
                  ELSE IF action_key = "alert" THEN alert_ops(c)
                  ELSE c)

\* main.py run_action
run_action(action_key, c) ==
  IF action_key = "reroute" THEN reroute_traffic(c)
  ELSE IF action_key = "suppress" THEN suppress_failing_path(c)
  ELSE IF action_key = "retry" THEN adjust_retry_policy(c)
  ELSE IF action_key = "alert" THEN alert_ops(c)
  ELSE c

(***************************************************************************)
(* The dashboard.                                                          *)
(***************************************************************************)
\* the dashboard's routing with the reroute not passed through is_safe
AppOutcome_reroute_unguarded(res, vol) ==
  IF should_escalate(res) THEN "ESCALATED"
  ELSE IF get_action_key(res.proposed_action) = "reroute" THEN "EXECUTED"
  ELSE IF get_action_key(res.proposed_action) # "no_action" THEN "SKIPPED_SAFETY"
  ELSE "MONITORED"

\* app.py run_agent_cycle: the outcome it routes a result to
AppOutcome(res, vol) ==
  IF should_escalate(res) THEN "ESCALATED"
  ELSE IF get_action_key(res.proposed_action) = "reroute"
          /\ is_safe(res.confidence_score, vol) THEN "EXECUTED"
  ELSE IF get_action_key(res.proposed_action) # "no_action" THEN "SKIPPED_SAFETY"
  ELSE "MONITORED"

\* app.py run_agent_cycle, from the result on: the session state is set and
\* the result is routed
AppDispatch(res) ==
  LET action_key == get_action_key(res.proposed_action)
      confidence == res.confidence_score
      outcome == AppOutcome(res, volume)
  IN /\ result' = res
     /\ agent_result' = res
     /\ CASE outcome = "ESCALATED" ->
               /\ action_taken' = "escalated"
               /\ calls' = alert_ops(calls)
               /\ lessons' = Append(lessons,
                    Lesson(res.diagnosis, "ALERT_ONLY", "ESCALATED",
                           [proposed_action |-> res.proposed_action,
                            confidence |-> confidence]))
          [] outcome = "EXECUTED" ->
               /\ action_taken' = "reroute"
               /\ calls' = reroute_traffic(calls)
               /\ lessons' = Append(lessons,
                    Lesson(res.diagnosis, res.proposed_action, "EXECUTED",
                           [action_key |-> action_key]))
          [] outcome = "SKIPPED_SAFETY" ->
               /\ action_taken' = "escalated"
               /\ calls' = alert_ops(calls)
               /\ lessons' = Append(lessons,
                    LessonBare(res.diagnosis, res.proposed_action, "SKIPPED_SAFETY"))
          [] outcome = "MONITORED" ->
               /\ action_taken' = "no_action"
               /\ calls' = calls
               /\ lessons' = Append(lessons,
                    LessonBare(res.diagnosis, "Take no action", "MONITORED"))

\* app.py run_agent_cycle
run_agent_cycle ==
  LET historical == get_historical_outcomes(lessons, 5)
  IN AppDispatch(diagnose_and_decide(aggregated, historical))

\* the handler of the button without the minimum-sample guard
ClickRunAgent_unguarded ==
  /\ program = "app"
  /\ pc = "ready"
  /\ run_agent_cycle
  /\ pc' = "done"
  /\ UNCHANGED <<program, aggregated, volume, cycle, st_buffer>>
  /\ UNCHANGED auxVars

\* app.py main: the handler of the "Run agent cycle" button
ClickRunAgent ==
  /\ program = "app"
  /\ pc = "ready"
  /\ IF aggregated.total_count < MIN_SAMPLE_DASHBOARD
       THEN UNCHANGED <<result, agent_result, action_taken, calls, lessons>>
       ELSE run_agent_cycle
  /\ pc' = "done"
  /\ UNCHANGED <<program, aggregated, volume, cycle, st_buffer>>
  /\ UNCHANGED auxVars

(***************************************************************************)
(* The continuous loop.                                                    *)
(***************************************************************************)
\* the loop's routing without the no_action test on the branch that executes
MainOutcome_unguarded(res, vol) ==
  IF should_escalate(res) THEN "ESCALATED"
  ELSE IF is_safe(res.confidence_score, vol) THEN "EXECUTED"
  ELSE IF get_action_key(res.proposed_action) # "no_action" THEN "SKIPPED_SAFETY"
  ELSE "MONITORED"

\* the loop's routing with the guardrail applied to a reroute only
MainOutcome_reroute_gated(res, vol) ==
  IF should_escalate(res) THEN "ESCALATED"
  ELSE IF get_action_key(res.proposed_action) # "no_action"
          /\ (get_action_key(res.proposed_action) = "reroute"
                => is_safe(res.confidence_score, vol)) THEN "EXECUTED"
  ELSE IF get_action_key(res.proposed_action) # "no_action" THEN "SKIPPED_SAFETY"
  ELSE "MONITORED"

\* main.py main: the outcome the loop routes a result to
MainOutcome(res, vol) ==
  IF should_escalate(res) THEN "ESCALATED"
  ELSE IF get_action_key(res.proposed_action) # "no_action"
          /\ is_safe(res.confidence_score, vol) THEN "EXECUTED"
  ELSE IF get_action_key(res.proposed_action) # "no_action" THEN "SKIPPED_SAFETY"
  ELSE "MONITORED"

\* main.py main, from the result on: the incident is remembered and the
\* result is routed with the cumulative volume
MainDispatch(res, total_volume) ==
  LET action_key == get_action_key(res.proposed_action)
      incident == [aggregated |-> aggregated,
                   diagnosis |-> res.diagnosis,
                   evidence |-> res.evidence,
                   proposed_action |-> res.proposed_action,
                   confidence_score |-> res.confidence_score,
                   action_key |-> action_key]
      outcome == MainOutcome(res, total_volume)
  IN /\ result' = res
     /\ st_buffer' = remember(st_buffer, incident)
     /\ CASE outcome = "ESCALATED" ->
               /\ calls' = alert_ops(calls)
               /\ lessons' = Append(lessons,
                    Lesson(res.diagnosis, "ALERT_ONLY", "ESCALATED",
                           [proposed_action |-> res.proposed_action,
                            confidence |-> res.confidence_score]))
          [] outcome = "EXECUTED" ->
               /\ calls' = run_action(action_key, calls)
               /\ lessons' = Append(lessons,
                    Lesson(res.diagnosis, res.proposed_action, "EXECUTED",
                           [action_key |-> action_key]))
          [] outcome = "SKIPPED_SAFETY" ->
               /\ calls' = alert_ops(calls)
               /\ lessons' = Append(lessons,
                    LessonBare(res.diagnosis, res.proposed_action, "SKIPPED_SAFETY"))
          [] outcome = "MONITORED" ->
               /\ calls' = calls
               /\ lessons' = Append(lessons,
                    LessonBare(res.diagnosis, "Take no action", "MONITORED"))

\* one pass of the loop with the size of the window given to the guardrail
MainCycle_window_volume ==
  /\ program = "main"
  /\ pc = "ready"
  /\ LET total_volume == volume + EVENTS_PER_CYCLE
         historical == get_historical_outcomes(lessons, 5)
     IN /\ cycle' = cycle + 1
        /\ volume' = total_volume
        /\ MainDispatch(diagnose_and_decide(aggregated, historical),
                        aggregated.total_count)
  /\ pc' = "done"
  /\ UNCHANGED <<program, aggregated, agent_result, action_taken>>
  /\ UNCHANGED auxVars

\* main.py main: one pass of the while loop
MainCycle ==
  /\ program = "main"
  /\ pc = "ready"
  /\ LET total_volume == volume + EVENTS_PER_CYCLE
         historical == get_historical_outcomes(lessons, 5)
     IN /\ cycle' = cycle + 1
        /\ volume' = total_volume
        /\ MainDispatch(diagnose_and_decide(aggregated, historical), total_volume)
  /\ pc' = "done"
  /\ UNCHANGED <<program, aggregated, agent_result, action_taken>>
  /\ UNCHANGED auxVars

Next == ClickRunAgent \/ MainCycle

Spec == Init /\ [][Next]_vars

(***************************************************************************)
(* The dispatchers alone.  The engine proposes "Suppress failing path",    *)
(* "Adjust retry policy" and "Alert human operators" only below 0.8, so    *)
(* the branches of the dispatchers for such keys at 0.8 and above are      *)
(* exercised by handing them every result _format_output can build from an *)
(* action label and a confidence.                                          *)
(***************************************************************************)
\* confidence scores handed to the dispatchers, in hundredths: the scores
\* the engine returns and the two around the bar
ConfidenceValues == {40, 65, 68, 72, 75, 78, 79, 80, 82, 85}

\* the results handed to the dispatchers
Results ==
  {format_output("diagnosis", Evidence("evidence", <<>>), a, "risk", c) :
     a \in ACTION_OPTIONS, c \in ConfidenceValues}

\* a window without events
EmptyWindow == Snapshot(ErrorDist(0, 0, 0, 0, 0), <<>>, 0)

\* most events the dashboard's buffer holds beyond MAX_AUTONOMOUS_VOLUME
MaxOver == 2

InitRoute ==
  /\ IdleAux
  /\ aggregated = EmptyWindow
  /\ \/ /\ program = "app"
        /\ cycle = 0
        /\ volume \in 0..(MAX_AUTONOMOUS_VOLUME + MaxOver)
     \/ /\ program = "main"
        /\ cycle \in 0..MaxPriorCycles
        /\ volume = EVENTS_PER_CYCLE * cycle
  /\ pc = "ready"
  /\ agent_result = NoResult
  /\ action_taken = "None"
  /\ result = NoResult
  /\ lessons = <<>>
  /\ st_buffer = <<>>
  /\ calls = NoCalls

\* app.py run_agent_cycle lines 53-78 on a given result
DispatchApp ==
  /\ program = "app"
  /\ pc = "ready"
  /\ \E res \in Results : AppDispatch(res)
  /\ pc' = "done"
  /\ UNCHANGED <<program, aggregated, volume, cycle, st_buffer>>
  /\ UNCHANGED auxVars

\* main.py main lines 51-52 and 68-102 on a given result
DispatchMain ==
  /\ program = "main"
  /\ pc = "ready"
  /\ LET total_volume == volume + EVENTS_PER_CYCLE
     IN /\ cycle' = cycle + 1
        /\ volume' = total_volume
        /\ \E res \in Results : MainDispatch(res, total_volume)
  /\ pc' = "done"
  /\ UNCHANGED <<program, aggregated, agent_result, action_taken>>
  /\ UNCHANGED auxVars

NextRoute == DispatchApp \/ DispatchMain

SpecRoute == InitRoute /\ [][NextRoute]_vars

(***************************************************************************)
(* get_action_key alone, on texts the engine emits and on any other text.  *)
(***************************************************************************)
\* the words texts are made of: the keywords of get_action_key, parts of
\* them, and words that are no keyword
Words ==
  {<<"r","e","r","o","u","t","e">>, <<"t","r","a","f","f","i","c">>,
   <<"r","e","t","r","y">>, <<"s","u","p","p","r","e","s","s">>,
   <<"f","a","i","l","i","n","g">>, <<"p","a","t","h">>,
   <<"a","l","e","r","t">>, <<"h","u","m","a","n">>,
   <<"o","p","e","r","a","t","o","r","s">>,
   <<"o","p","e","r","a","t","o","r">>, <<"r","e","t","r","i","e","s">>,
   <<"n","o"," ","a","c","t","i","o","n">>}

\* most words in a text
MaxWords == 2

RECURSIVE Phrases(_)
\* the texts of at most n words, joined by a space
Phrases(n) ==
  IF n = 0 THEN {<<>>}
  ELSE Phrases(n - 1) \cup Words
         \cup {p \o <<" ">> \o w : p \in Phrases(n - 1) \ {<<>>}, w \in Words}

\* str.upper()
upper(a) ==
  [i \in 1..Len(a) |->
     IF \E k \in 1..Len(LowerCase) : LowerCase[k] = a[i]
       THEN UpperCase[CHOOSE k \in 1..Len(LowerCase) : LowerCase[k] = a[i]]
       ELSE a[i]]

\* str.capitalize() of a lower-case text
capitalize(a) == IF a = <<>> THEN a ELSE upper(SubSeq(a, 1, 1)) \o Tail(a)

\* the texts classified: a phrase as it is, in upper case or capitalized,
\* with or without a space before and after it.  The empty text is what
\* (proposed_action or "") makes of None.
FreeTexts ==
  {lead \o t \o trail :
     lead \in {<<>>, <<" ">>}, trail \in {<<>>, <<" ">>},
     t \in UNION {{p, upper(p), capitalize(p)} : p \in Phrases(MaxWords)}}

\* either the engine is about to diagnose a window, or a text is given
InitText ==
  /\ cycle = 0
  /\ pc = "ready"
  /\ agent_result = NoResult
  /\ action_taken = "None"
  /\ result = NoResult
  /\ lessons = <<>>
  /\ st_buffer = <<>>
  /\ calls = NoCalls
  /\ label = "None"
  /\ key = "None"
  /\ IdleAgg
  /\ IdleHist
  /\ \/ /\ program = "main"
        /\ ObserveWindow(0, MaxSuccess + MaxFailures)
        /\ volume = aggregated.total_count
        /\ text = <<>>
     \/ /\ program = "text"
        /\ aggregated = EmptyWindow
        /\ volume = 0
        /\ text \in FreeTexts

\* main.py main lines 60-61 (app.py lines 47-51): the engine diagnoses the
\* window and the action it proposes is classified
ProposeAndClassify ==
  /\ program = "main"
  /\ pc = "ready"
  /\ LET historical == get_historical_outcomes(lessons, 5)
         res == diagnose_and_decide(aggregated, historical)
     IN /\ result' = res
        /\ label' = res.proposed_action
        /\ text' = Chars(res.proposed_action)
        /\ key' = get_action_key(res.proposed_action)
  /\ pc' = "done"
  /\ UNCHANGED <<program, aggregated, volume, cycle, agent_result,
                 action_taken, lessons, st_buffer, calls>>
  /\ UNCHANGED <<aggVars, histVars>>

\* brain/agent.py get_action_key on a given text
Classify ==
  /\ program = "text"
  /\ pc = "ready"
  /\ key' = get_action_key_text(text)
  /\ pc' = "done"
  /\ UNCHANGED <<program, aggregated, volume, cycle, agent_result,
                 action_taken, result, lessons, st_buffer, calls, text, label>>
  /\ UNCHANGED <<aggVars, histVars>>

NextText == ProposeAndClassify \/ Classify

SpecText == InitText /\ [][NextText]_vars

(***************************************************************************)
(* The window and the aggregator.  An event is a record with the fields of *)
(* generate_transaction; an event a caller passes may have no "ts".        *)
(***************************************************************************)
\* main.py AGGREGATION_WINDOW_SEC; the literal 60 of simulator.py and app.py
AGGREGATION_WINDOW_SEC == 60

ISSUERS == {"VISA", "MASTERCARD", "RUPAY"}
METHODS == {"CARD", "UPI", "NETBANKING"}

\* what generate_transaction draws: ISSUER_DOWN comes with the bank SBI only,
\* the latency is one of randint(80, 2500)
EventKinds ==
  {[bank |-> "HDFC", issuer |-> "VISA", method |-> "CARD",
    status |-> "SUCCESS", latency_ms |-> 100],
   [bank |-> "SBI", issuer |-> "RUPAY", method |-> "UPI",
    status |-> "ISSUER_DOWN", latency_ms |-> 2001],
   [bank |-> "SBI", issuer |-> "VISA", method |-> "NETBANKING",
    status |-> "BANK_TIMEOUT", latency_ms |-> 1700]}

\* data_stream/simulator.py generate_transaction, at the time now
generate_transaction(kind, now) ==
  [bank |-> kind.bank, issuer |-> kind.issuer, method |-> kind.method,
   status |-> kind.status, latency_ms |-> kind.latency_ms, ts |-> now]

\* e.get("ts", 0)
get_ts(e) == IF "ts" \in DOMAIN e THEN e.ts ELSE 0

\* the window test with the limit left out: (now - ts) < 60
InWindow_exclusive(e, now) == (now - get_ts(e)) < AGGREGATION_WINDOW_SEC

\* simulator.py line 51 and app.py line 37: (now - e.get("ts", 0)) <= 60
InWindow(e, now) == (now - get_ts(e)) <= AGGREGATION_WINDOW_SEC

\* the cutoff test with the cutoff left out: ts > cutoff
AfterCutoff_exclusive(e, cutoff) == get_ts(e) > cutoff

\* main.py line 28: e.get("ts", 0) >= cutoff
AfterCutoff(e, cutoff) == get_ts(e) >= cutoff

\* [e for e in events if (now - e.get("ts", 0)) <= 60]
WindowOf(events, now) ==
  LET keep(e) == InWindow(e, now) IN SelectSeq(events, keep)

\* the failures as the events of four known codes
FailuresOf_known_codes(window) ==
  LET keep(e) == e.status \in {"BANK_TIMEOUT", "NETWORK_ERROR", "USER_DECLINED"}
  IN SelectSeq(window, keep)

\* [e for e in window if e["status"] != "SUCCESS"]
FailuresOf(window) ==
  LET keep(e) == e.status # "SUCCESS" IN SelectSeq(window, keep)

\* [e for e in window if e["status"] == "SUCCESS"]
SuccessOf(window) ==
  LET keep(e) == e.status = "SUCCESS" IN SelectSeq(window, keep)

\* a tally that counts each value once, however many events have it
CountBy_once(evs, field) ==
  [v \in {evs[i][field] : i \in 1..Len(evs)} |-> 1]

\* for e in evs: tally[e[field]] += 1, as a dict
CountBy(evs, field) ==
  [v \in {evs[i][field] : i \in 1..Len(evs)} |->
     Cardinality({i \in 1..Len(evs) : evs[i][field] = v})]

\* list({e[field] for e in window}), as a set
Distinct(evs, field) == {evs[i][field] : i \in 1..Len(evs)}

RECURSIVE SumLatency(_)
\* sum(latencies)
SumLatency(evs) ==
  IF evs = <<>> THEN 0 ELSE Head(evs).latency_ms + SumLatency(Tail(evs))

\* round(total / n, 2) in hundredths of a millisecond; below 8 events the
\* mean is never halfway between two hundredths
round2(total, n) == (200 * total + n) \div (2 * n)

\* data_stream/simulator.py _empty_aggregate
empty_aggregate ==
  [window_seconds |-> 60,
   total_count |-> 0,
   success_count |-> 0,
   failure_count |-> 0,
   success_rate |-> [num |-> 0, den |-> 1],
   error_code_distribution |-> <<>>,
   affected_banks |-> {},
   affected_issuers |-> {},
   affected_methods |-> {},
   failures_by_bank |-> <<>>,
   failures_by_issuer |-> <<>>,
   failures_by_method |-> <<>>,
   average_latency_ms |-> 0,
   sample_size |-> 0]

\* data_stream/simulator.py aggregate_last_60_seconds; now is the time the
\* call reads.  success_rate is the quotient as numerator and denominator
\* (0 is 0/1), average_latency_ms is in hundredths.
aggregate_last_60_seconds(events, now) ==
  LET window == WindowOf(events, now)
      success == SuccessOf(window)
      failures == FailuresOf(window)
  IN IF window = <<>> THEN empty_aggregate
     ELSE [window_seconds |-> 60,
           total_count |-> Len(window),
           success_count |-> Len(success),
           failure_count |-> Len(failures),
           success_rate |-> [num |-> Len(success), den |-> Len(window)],
           error_code_distribution |-> CountBy(window, "status"),
           affected_banks |-> Distinct(window, "bank"),
           affected_issuers |-> Distinct(window, "issuer"),
           affected_methods |-> Distinct(window, "method"),
           failures_by_bank |-> CountBy(failures, "bank"),
           failures_by_issuer |-> CountBy(failures, "issuer"),
           failures_by_method |-> CountBy(failures, "method"),
           average_latency_ms |-> round2(SumLatency(window), Len(window)),
           sample_size |-> Len(window)]

\* most events ever appended to a buffer
MaxInserted == 2

\* most seconds the clock runs
MaxElapsed == 122

\* the clock does not run past this
MaxClock == StartClock + MaxElapsed

\* the seconds that pass between two steps: they make an event exactly 60
\* or just over 60 seconds old
TickSteps == {60, 61}

\* the events a dashboard button appends, 25 or 50 in the program
SimulateSizes == {1, 2}

\* most events in a list a caller passes to aggregate
MaxGiven == 2

\* the events of a list a caller passes: fresh, exactly 60 seconds old, older,
\* or without a timestamp
GivenEvents ==
  {generate_transaction(k, t) :
     k \in EventKinds, t \in {StartClock, StartClock - 60, StartClock - 61}}
    \cup EventKinds

\* the lists a caller passes
GivenLists == UNION {[1..n -> GivenEvents] : n \in 0..MaxGiven}

\* The dashboard and the loop start with an empty buffer; a caller of
\* aggregate holds a list of events.
InitAgg ==
  /\ IdleText
  /\ IdleHist
  /\ pc = "ready"
  /\ aggregated = EmptyWindow
  /\ volume = 0
  /\ cycle = 0
  /\ agent_result = NoResult
  /\ action_taken = "None"
  /\ result = NoResult
  /\ lessons = <<>>
  /\ st_buffer = <<>>
  /\ calls = NoCalls
  /\ clock = StartClock
  /\ snap = NoSnap
  /\ agg_events = <<>>
  /\ agg_now = 0
  /\ prev_snap = NoSnap
  /\ prev_events = <<>>
  /\ prev_now = 0
  /\ \/ /\ program \in {"app", "main"}
        /\ buffer = <<>>
        /\ inserted = <<>>
     \/ /\ program = "events"
        /\ buffer \in GivenLists
        /\ inserted = buffer

\* a call of aggregate_last_60_seconds(events) at the time now
CallAggregate(events, now) ==
  /\ snap' = aggregate_last_60_seconds(events, now)
  /\ agg_events' = events
  /\ agg_now' = now
  /\ prev_snap' = snap
  /\ prev_events' = agg_events
  /\ prev_now' = agg_now

\* time passes
Tick ==
  /\ \E d \in TickSteps : clock + d <= MaxClock /\ clock' = clock + d
  /\ UNCHANGED <<buffer, inserted, snap, agg_events, agg_now,
                 prev_snap, prev_events, prev_now>>
  /\ UNCHANGED <<cycleVars, textVars, histVars>>

\* main.py main lines 50-52, one pass of the for loop
Ingest ==
  /\ program = "main"
  /\ Len(inserted) < MaxInserted
  /\ \E k \in EventKinds :
       LET evt == generate_transaction(k, clock)
       IN /\ buffer' = Append(buffer, evt)
          /\ inserted' = Append(inserted, evt)
  /\ volume' = volume + 1
  /\ UNCHANGED <<clock, snap, agg_events, agg_now, prev_snap, prev_events, prev_now>>
  /\ UNCHANGED <<program, pc, aggregated, cycle, agent_result, action_taken,
                 result, lessons, st_buffer, calls>>
  /\ UNCHANGED <<textVars, histVars>>

\* main.py collect_and_aggregate
collect_and_aggregate ==
  /\ program = "main"
  /\ LET now == clock
         cutoff == now - AGGREGATION_WINDOW_SEC
         keep(e) == AfterCutoff(e, cutoff)
         kept == SelectSeq(buffer, keep)
     IN /\ buffer' = kept
        /\ CallAggregate(kept, clock)
  /\ UNCHANGED <<clock, inserted>>
  /\ UNCHANGED <<cycleVars, textVars, histVars>>

\* app.py simulate_traffic(n), the handler of a "Simulate" button
simulate_traffic ==
  /\ program = "app"
  /\ \E n \in SimulateSizes :
       /\ Len(inserted) + n <= MaxInserted
       /\ \E batch \in [1..n -> EventKinds] :
            LET new == [i \in 1..n |-> generate_transaction(batch[i], clock)]
                now == clock
            IN /\ buffer' = WindowOf(buffer \o new, now)
               /\ inserted' = inserted \o new
  /\ UNCHANGED <<clock, snap, agg_events, agg_now, prev_snap, prev_events, prev_now>>
  /\ UNCHANGED <<cycleVars, textVars, histVars>>

\* app.py get_aggregated, called on every rerun of the page
get_aggregated ==
  /\ program = "app"
  /\ CallAggregate(buffer, clock)
  /\ UNCHANGED <<buffer, clock, inserted>>
  /\ UNCHANGED <<cycleVars, textVars, histVars>>

\* aggregate_last_60_seconds called on the list a caller holds
AggregateGiven ==
  /\ program = "events"
  /\ CallAggregate(buffer, clock)
  /\ UNCHANGED <<buffer, clock, inserted>>
  /\ UNCHANGED <<cycleVars, textVars, histVars>>

NextAgg ==
  \/ Tick
  \/ Ingest
  \/ collect_and_aggregate
  \/ simulate_traffic
  \/ get_aggregated
  \/ AggregateGiven

SpecAgg == InitAgg /\ [][NextAgg]_vars

(***************************************************************************)
(* Cycle after cycle: the dashboard's button clicked again and again, the  *)
(* loop running on, the lesson log read in between.                        *)
(***************************************************************************)
\* the windows the cycles observe: too sparse for the dashboard, too small
\* for the engine, healthy, one bank down with its issuer, bank timeouts
LoopWindows ==
  {Snapshot(ErrorDist(3, 0, 0, 0, 0), <<>>, 1500),
   Snapshot(ErrorDist(8, 0, 0, 0, 0), <<>>, 1500),
   Snapshot(ErrorDist(16, 0, 0, 0, 0), <<>>, 1500),
   Snapshot(ErrorDist(12, 0, 4, 0, 0), [b \in {"SBI"} |-> 4], 1500),
   Snapshot(ErrorDist(12, 4, 0, 0, 0), [b \in {"HDFC", "ICICI"} |-> 2], 1500)}

\* most lessons the log holds
MaxLessons == 3

\* the largest n get_historical_outcomes is called with on its own
MaxRetrieve == 3

\* the windows a program can observe: the loop has ingested 8 events more
\* than vol and the 8 of the cycle are in the window
WindowsOf(prog, vol) ==
  IF prog = "main"
    THEN {w \in LoopWindows : /\ w.total_count >= EVENTS_PER_CYCLE
                              /\ w.total_count <= vol + EVENTS_PER_CYCLE}
    ELSE LoopWindows

InitLoop ==
  /\ IdleAux
  /\ program \in {"app", "main"}
  /\ cycle = 0
  /\ aggregated \in WindowsOf(program, 0)
  /\ volume = IF program = "app" THEN aggregated.total_count ELSE 0
  /\ pc = "ready"
  /\ agent_result = NoResult
  /\ action_taken = "None"
  /\ result = NoResult
  /\ lessons = <<>>
  /\ st_buffer = <<>>
  /\ calls = NoCalls

\* app.py main lines 151-159: traffic is simulated and the page, rerun,
\* aggregates the buffer; main.py lines 104 and 58: the loop sleeps and
\* aggregates the window of its next cycle
NextWindow ==
  /\ pc = "done"
  /\ Len(lessons) < MaxLessons
  /\ aggregated' \in WindowsOf(program, volume)
  /\ volume' = IF program = "app" THEN aggregated'.total_count ELSE volume
  /\ pc' = "ready"
  /\ UNCHANGED <<program, cycle, agent_result, action_taken, result,
                 lessons, st_buffer, calls>>
  /\ UNCHANGED auxVars

\* memory/long_term.py get_historical_outcomes(n), called on its own
GetHistoricalOutcomes ==
  /\ \E n \in 0..MaxRetrieve :
       /\ history' = get_historical_outcomes(lessons, n)
       /\ history_n' = n
  /\ UNCHANGED <<cycleVars, textVars, aggVars>>

NextLoop ==
  \/ ClickRunAgent
  \/ MainCycle
  \/ NextWindow
  \/ GetHistoricalOutcomes

SpecLoop == InitLoop /\ [][NextLoop]_vars

(***************************************************************************)
(* The loop with failures of its surroundings: lessons.json unreadable     *)
(* when the store is built, unwritable when a lesson is saved, a tool or   *)
(* the notifier raising.  main.py has no try; LongTermMemory catches what  *)
(* the load raises and nothing else.                                       *)
(***************************************************************************)
\* a lesson an earlier run left in lessons.json
PriorLesson ==
  LessonBare("Normal variance (no significant anomaly)", "Take no action",
             "MONITORED")

\* The loop before its first cycle: the store is not built yet and lessons
\* is what lessons.json holds.  The window of the first cycle holds the 8
\* events the cycle ingests.
InitFault ==
  /\ IdleAux
  /\ program = "main"
  /\ cycle = 0
  /\ volume = 0
  /\ ObserveWindow(EVENTS_PER_CYCLE, EVENTS_PER_CYCLE)
  /\ pc = "start"
  /\ agent_result = NoResult
  /\ action_taken = "None"
  /\ result = NoResult
  /\ lessons \in {<<>>, <<PriorLesson>>}
  /\ st_buffer = <<>>
  /\ calls = NoCalls

\* memory/long_term.py _get_store and LongTermMemory.__init__, at the first
\* get_historical_outcomes of the loop: the file is loaded, or open or
\* json.load raises and data is []
LoadStore ==
  /\ pc = "start"
  /\ \E loaded \in BOOLEAN : lessons' = IF loaded THEN lessons ELSE <<>>
  /\ pc' = "ready"
  /\ UNCHANGED <<program, aggregated, volume, cycle, agent_result,
                 action_taken, result, st_buffer, calls>>
  /\ UNCHANGED auxVars

\* main.py main, one pass in which open(self.path, "w") or json.dump raises
\* in save_lesson: the tool or the notifier was invoked, the lesson was
\* appended to self.data, and the exception leaves main
SaveLessonRaises ==
  /\ program = "main"
  /\ pc = "ready"
  /\ LET total_volume == volume + EVENTS_PER_CYCLE
         historical == get_historical_outcomes(lessons, 5)
     IN /\ cycle' = cycle + 1
        /\ volume' = total_volume
        /\ MainDispatch(diagnose_and_decide(aggregated, historical), total_volume)
  /\ pc' = "aborted"
  /\ UNCHANGED <<program, aggregated, agent_result, action_taken>>
  /\ UNCHANGED auxVars

\* main.py main, one pass in which alert_ops or run_action raises (print
\* fails): nothing is stored and the exception leaves main
ToolRaises ==
  /\ program = "main"
  /\ pc = "ready"
  /\ LET total_volume == volume + EVENTS_PER_CYCLE
         historical == get_historical_outcomes(lessons, 5)
         res == diagnose_and_decide(aggregated, historical)
         action_key == get_action_key(res.proposed_action)
     IN /\ MainOutcome(res, total_volume) # "MONITORED"
        /\ cycle' = cycle + 1
        /\ volume' = total_volume
        /\ result' = res
        /\ st_buffer' = remember(st_buffer,
             [aggregated |-> aggregated,
              diagnosis |-> res.diagnosis,
              evidence |-> res.evidence,
              proposed_action |-> res.proposed_action,
              confidence_score |-> res.confidence_score,
              action_key |-> action_key])
  /\ pc' = "aborted"
  /\ UNCHANGED <<program, aggregated, agent_result, action_taken, lessons, calls>>
  /\ UNCHANGED auxVars

NextFault ==
  \/ LoadStore
  \/ MainCycle
  \/ NextWindow
  \/ SaveLessonRaises
  \/ ToolRaises

SpecFault == InitFault /\ [][NextFault]_vars







(***************************************************************************)
(* Properties.                                                             *)
(***************************************************************************)
\* a decision cycle has run to its end
CycleRan == pc = "done" /\ result # NoResult

\* the lesson the cycle recorded
LastLesson == lessons[Len(lessons)]

\* no routing, suppress or retry tool was invoked
NoToolInvoked ==
  /\ calls.reroute_traffic = 0
  /\ calls.suppress_failing_path = 0
  /\ calls.adjust_retry_policy = 0

\* C1: in both cycles a result with confidence below 0.8 ends ESCALATED,
\* whatever action it proposes: the operators are alerted once, no tool is
\* invoked, and the one lesson recorded has action ALERT_ONLY and outcome
\* ESCALATED.
C1_LowConfidenceEscalated ==
  (CycleRan /\ result.confidence_score < 80) =>
    /\ Len(lessons) = 1
    /\ LastLesson.outcome = "ESCALATED"
    /\ LastLesson.action = "ALERT_ONLY"
    /\ calls.alert_ops = 1
    /\ NoToolInvoked
    /\ (program = "app" => action_taken = "escalated")

\* C1 witness: a cycle of the loop that proposed to suppress a path at a
\* confidence below 0.8.
C1_Witness ==
  /\ CycleRan
  /\ program = "main"
  /\ result.confidence_score < 80
  /\ result.proposed_action = "Suppress failing path"

\* C2: a reroute proposal with confidence >= 0.8 and a volume within
\* MAX_AUTONOMOUS_VOLUME ends EXECUTED: reroute is invoked exactly once, no
\* other tool and no alert, and the lesson holds the proposed action itself;
\* and is_safe(confidence, volume) is true exactly when confidence >= 0.8 and
\* volume <= MAX_AUTONOMOUS_VOLUME.
C2_SafeRerouteExecuted ==
  /\ (/\ CycleRan
      /\ get_action_key(result.proposed_action) = "reroute"
      /\ result.confidence_score >= 80
      /\ volume <= MAX_AUTONOMOUS_VOLUME) =>
       /\ Len(lessons) = 1
       /\ LastLesson.outcome = "EXECUTED"
       /\ LastLesson.action = result.proposed_action
       /\ LastLesson.action = "Reroute traffic"
       /\ calls = [NoCalls EXCEPT !.reroute_traffic = 1]
       /\ (program = "app" => action_taken = "reroute")
  /\ \A c \in {result.confidence_score, 79, 80} :
       is_safe(c, volume) <=> (c >= 80 /\ volume <= MAX_AUTONOMOUS_VOLUME)

\* C2 witness: a reroute executed at a volume that is exactly the limit.
C2_Witness ==
  /\ CycleRan
  /\ result.proposed_action = "Reroute traffic"
  /\ volume = MAX_AUTONOMOUS_VOLUME
  /\ LastLesson.outcome = "EXECUTED"

\* C3: a result with confidence >= 0.8 whose action is not "Take no action"
\* and that the guardrail did not let pass ends SKIPPED_SAFETY: no tool is
\* invoked, the operators are notified once and the one lesson recorded has
\* outcome SKIPPED_SAFETY.
C3_BlockedActionSkipped ==
  (/\ CycleRan
   /\ result.confidence_score >= 80
   /\ result.proposed_action # "Take no action"
   /\ ~(result.confidence_score >= 80 /\ volume <= MAX_AUTONOMOUS_VOLUME)) =>
    /\ Len(lessons) = 1
    /\ LastLesson.outcome = "SKIPPED_SAFETY"
    /\ LastLesson.action = result.proposed_action
    /\ NoToolInvoked
    /\ calls.alert_ops = 1
    /\ (program = "app" => action_taken = "escalated")

\* C3 witness: the dashboard skipped a reroute because the buffer held more
\* than MAX_AUTONOMOUS_VOLUME events.
C3_Witness ==
  /\ CycleRan
  /\ program = "app"
  /\ result.proposed_action = "Reroute traffic"
  /\ volume > MAX_AUTONOMOUS_VOLUME
  /\ LastLesson.outcome = "SKIPPED_SAFETY"

\* C4: a result with confidence >= 0.8 that proposes "Take no action" ends
\* MONITORED: one lesson with action "Take no action" and outcome MONITORED,
\* and neither the notifier nor any tool is invoked.
C4_NoActionMonitored ==
  (/\ CycleRan
   /\ result.confidence_score >= 80
   /\ result.proposed_action = "Take no action") =>
    /\ Len(lessons) = 1
    /\ LastLesson.outcome = "MONITORED"
    /\ LastLesson.action = "Take no action"
    /\ calls = NoCalls
    /\ (program = "app" => action_taken = "no_action")

\* C4 witness: the normal-variance result, confidence 0.85, was monitored.
C4_Witness ==
  /\ CycleRan
  /\ result.diagnosis = "Normal variance (no significant anomaly)"
  /\ result.confidence_score = 85
  /\ aggregated.total_count >= 10
  /\ LastLesson.outcome = "MONITORED"


(***************************************************************************)
(* The rules of the engine, stated on the snapshot.                        *)
(***************************************************************************)
Total == aggregated.total_count
Failures == aggregated.failure_count
UserDeclined == aggregated.error_code_distribution["USER_DECLINED"]
BankTimeout == aggregated.error_code_distribution["BANK_TIMEOUT"]
IssuerDown == aggregated.error_code_distribution["ISSUER_DOWN"]
NetworkError == aggregated.error_code_distribution["NETWORK_ERROR"]
Latency == aggregated.average_latency_ms

\* some bank has at least pct percent of the failures
BankShare(pct) ==
  \E b \in DOMAIN aggregated.failures_by_bank :
    aggregated.failures_by_bank[b] * 100 >= pct * Failures

\* failure_rate >= 0.15
SpikeCond == Failures * 100 >= 15 * Total
Rule2Cond == Failures > 0 /\ UserDeclined * 2 >= Failures
ConcentrationCond == BankShare(60) \/ IssuerDown * 10 >= 4 * Failures
Rule3Cond ==
  /\ Failures >= 3
  /\ ConcentrationCond \/ (BankTimeout >= 2 /\ BankTimeout * 10 >= 4 * Failures)
Rule4Cond ==
  \/ NetworkError >= 2 /\ NetworkError * 100 >= 35 * Failures
  \/ Latency >= 1800 /\ SpikeCond
Rule5Cond == SpikeCond /\ Latency > 1500 /\ ~Rule2Cond

\* the result has this diagnosis, action and confidence (in hundredths)
Returned(diagnosis, action, confidence) ==
  /\ result.diagnosis = diagnosis
  /\ result.proposed_action = action
  /\ result.confidence_score = confidence

\* C5: for every snapshot with total_count < 10 the engine returns the
\* diagnosis "insufficient sample", the action "take no action" and the
\* confidence 0.4.
C5_InsufficientSampleDiagnosis ==
  (CycleRan /\ Total < 10) =>
    Returned("Insufficient sample", "Take no action", 40)

\* C6: with total_count >= 10, failure_count > 0 and a user-decline share of
\* at least 0.5 the engine returns "User-related", "Take no action", 0.82,
\* also when the concentration conditions of rule 3 hold.
C6_UserRelatedFirst ==
  (CycleRan /\ Total >= 10 /\ Rule2Cond) =>
    Returned("User-related", "Take no action", 82)

\* C6 witness: a user-related result on a snapshot whose failures are also
\* concentrated as rule 3 asks, the decline share being exactly 0.5.
C6_Witness ==
  /\ CycleRan /\ Total >= 10
  /\ UserDeclined * 2 = Failures
  /\ Failures >= 3 /\ BankShare(70) /\ IssuerDown >= 2
  /\ result.diagnosis = "User-related"

DirectKeyRouted ==
  /\ CycleRan
  /\ program = "main"
  /\ get_action_key(result.proposed_action) \in {"suppress", "retry", "alert"}
  /\ result.confidence_score >= 80

SameLetter(c, d) ==
  \/ c = d
  \/ \E k \in 1..Len(LowerCase) : LowerCase[k] = d /\ UpperCase[k] = c

\* the text t holds the keyword w, in whatever case
Mentions(t, w) ==
  \E i \in 0..(Len(t) - Len(w)) :
    \A j \in 1..Len(w) : SameLetter(t[i + j], w[j])

\* the key the precedence of the keywords gives a text
KeyByPrecedence(t) ==
  IF Mentions(t, <<"r","e","r","o","u","t","e">>)
       \/ Mentions(t, <<"t","r","a","f","f","i","c">>) THEN "reroute"
  ELSE IF Mentions(t, <<"r","e","t","r","y">>) THEN "retry"
  ELSE IF Mentions(t, <<"s","u","p","p","r","e","s","s">>)
       \/ Mentions(t, <<"f","a","i","l","i","n","g"," ","p","a","t","h">>)
    THEN "suppress"
  ELSE IF Mentions(t, <<"a","l","e","r","t">>)
       \/ Mentions(t, <<"h","u","m","a","n">>)
       \/ Mentions(t, <<"o","p","e","r","a","t","o","r","s">>) THEN "alert"
  ELSE "no_action"

\* the key each action label is meant to have
IntendedKey ==
  [a \in ACTION_OPTIONS |->
     CASE a = "Reroute traffic" -> "reroute"
       [] a = "Adjust retry policy" -> "retry"
       [] a = "Suppress failing path" -> "suppress"
       [] a = "Alert human operators" -> "alert"
       [] a = "Take no action" -> "no_action"]

\* C12: get_action_key maps any text, in whatever case, to one key by the
\* precedence reroute/traffic, retry, suppress/failing path,
\* alert/human/operators, else no_action; the label the engine emits is
\* always one of the five action labels, and each of the five maps to its
\* intended key.
C12_ActionKeyMapping ==
  /\ key # "None" => key = KeyByPrecedence(text)
  /\ label # "None" => /\ label \in ACTION_OPTIONS
                       /\ text = Chars(label)
                       /\ key = IntendedKey[label]
  /\ \A a \in ACTION_OPTIONS : get_action_key(a) = IntendedKey[a]

\* C12 witness: a text in upper case that holds a retry keyword and, after
\* it, a reroute keyword was classified as reroute.
C12_Witness ==
  /\ program = "text"
  /\ key = "reroute"
  /\ text = upper(text)
  /\ Mentions(text, <<"r","e","t","r","y">>)
  /\ Mentions(SubSeq(text, Len(text) - 6, Len(text)), <<"t","r","a","f","f","i","c">>)

\* C12 witness of the engine's side: the engine proposed to suppress the
\* failing path and the label was classified as suppress.
C12_EngineLabelClassified ==
  /\ program = "main"
  /\ label = "Suppress failing path"
  /\ key = "suppress"

\* aggregate was called
Took == snap # NoSnap

\* the event has a timestamp and is at most 60 seconds old at the time t
Fresh(e, t) == "ts" \in DOMAIN e /\ t - e.ts <= 60

\* the positions of the events of evs that are fresh at t
FreshIdx(evs, t) == {i \in 1..Len(evs) : Fresh(evs[i], t)}

\* the events of evs that are fresh at t, in their order
FreshSeq(evs, t) == LET keep(e) == Fresh(e, t) IN SelectSeq(evs, keep)

RECURSIVE SumOver(_, _)
\* the sum of the counts of a mapping over the keys in S
SumOver(f, S) ==
  IF S = {} THEN 0
  ELSE LET k == CHOOSE x \in S : TRUE IN f[k] + SumOver(f, S \ {k})

\* C13: every snapshot has success_count + failure_count = total_count, the
\* total being the number of events of the window; success_rate is
\* success_count / total_count, between 0 and 1; on an empty window all
\* counts are 0, the rate is 0, all mappings and sets are empty and the
\* average latency is 0.
C13_SnapshotCounts ==
  Took =>
    /\ snap.total_count = Cardinality(FreshIdx(agg_events, agg_now))
    /\ snap.success_count + snap.failure_count = snap.total_count
    /\ snap.success_count >= 0 /\ snap.failure_count >= 0
    /\ IF snap.total_count = 0
         THEN /\ snap.success_count = 0 /\ snap.failure_count = 0
              /\ snap.sample_size = 0
              /\ snap.success_rate.num = 0
              /\ snap.average_latency_ms = 0
              /\ DOMAIN snap.error_code_distribution = {}
              /\ DOMAIN snap.failures_by_bank = {}
              /\ DOMAIN snap.failures_by_issuer = {}
              /\ DOMAIN snap.failures_by_method = {}
              /\ snap.affected_banks = {}
              /\ snap.affected_issuers = {}
              /\ snap.affected_methods = {}
         ELSE /\ snap.success_rate.num = snap.success_count
              /\ snap.success_rate.den = snap.total_count
              /\ 0 <= snap.success_rate.num
              /\ snap.success_rate.num <= snap.success_rate.den

\* C13 witness: a window with a success and a failure was aggregated, and
\* after it the same two events, expired, gave the empty snapshot.
C13_Witness ==
  /\ Took
  /\ Len(agg_events) = 2
  /\ snap.total_count = 0
  /\ prev_snap # NoSnap
  /\ prev_snap.success_count = 1
  /\ prev_snap.failure_count = 1

\* the positions of the failures of the window aggregated last
FailedIdx ==
  {i \in FreshIdx(agg_events, agg_now) : agg_events[i].status # "SUCCESS"}

\* a mapping of the snapshot counts, under each value of the field, the
\* failures that have it, and nothing else
TalliesFailures(map, field) ==
  /\ DOMAIN map = {agg_events[i][field] : i \in FailedIdx}
  /\ \A v \in DOMAIN map :
       map[v] = Cardinality({i \in FailedIdx : agg_events[i][field] = v})
  /\ SumOver(map, DOMAIN map) = snap.failure_count

\* C14: in every snapshot the failures are the events of the window whose
\* status is not SUCCESS; each is counted once under its bank, once under
\* its issuer and once under its method, so each of the three mappings sums
\* to failure_count, and so do the error_code_distribution counts of the
\* codes other than SUCCESS.
C14_FailureTallies ==
  Took =>
    /\ snap.failure_count = Cardinality(FailedIdx)
    /\ TalliesFailures(snap.failures_by_bank, "bank")
    /\ TalliesFailures(snap.failures_by_issuer, "issuer")
    /\ TalliesFailures(snap.failures_by_method, "method")
    /\ SumOver(snap.error_code_distribution,
               DOMAIN snap.error_code_distribution \ {"SUCCESS"})
         = snap.failure_count

\* C14 witness: a snapshot of two failures at the same bank with different
\* issuers and methods.
C14_Witness ==
  /\ Took
  /\ snap.failure_count = 2
  /\ DOMAIN snap.failures_by_bank = {"SBI"}
  /\ snap.failures_by_bank["SBI"] = 2
  /\ DOMAIN snap.failures_by_issuer = {"RUPAY", "VISA"}
  /\ DOMAIN snap.failures_by_method = {"UPI", "NETBANKING"}

\* aggregate was called twice, on the same events
CalledTwiceOnSame ==
  /\ Took
  /\ prev_snap # NoSnap
  /\ agg_events = prev_events

\* C15 as stated: two calls of aggregate on the same unchanged events
\* return identical snapshots, whenever the calls are made.
C15_SameEventsSameSnapshot ==
  CalledTwiceOnSame => snap = prev_snap

\* C15 amended: two calls of aggregate on the same unchanged events return
\* identical snapshots when no event crossed the age of 60 seconds between
\* the calls; the time of the call matters through the window only.
C15_SameWindowSameSnapshot ==
  (/\ CalledTwiceOnSame
   /\ \A i \in 1..Len(agg_events) :
        Fresh(agg_events[i], agg_now) <=> Fresh(agg_events[i], prev_now)) =>
    snap = prev_snap

\* C15 witness: two calls on the same events at different times, the events
\* exactly 60 seconds old at the second.
C15_Witness ==
  /\ CalledTwiceOnSame
  /\ agg_now > prev_now
  /\ snap.total_count = Len(agg_events)
  /\ Len(agg_events) > 0
  /\ \A i \in 1..Len(agg_events) : agg_now - agg_events[i].ts = 60
  /\ snap = prev_snap

\* a step in which aggregate was called
CallStep ==
  <<snap, agg_events, agg_now, prev_snap, prev_events, prev_now>>'
    # <<snap, agg_events, agg_now, prev_snap, prev_events, prev_now>>

\* C16: after any insertions, clock advances and evictions the buffer holds
\* every inserted event that is at most 60 seconds old, in order; the events
\* a call of aggregate counts are exactly the inserted events at most 60
\* seconds old at the time of the call; an event without a timestamp counts
\* as expired.
C16_WindowIsFreshInserted ==
  [][/\ FreshSeq(buffer', clock') = FreshSeq(inserted', clock')
     /\ CallStep =>
          /\ agg_now' = clock'
          /\ WindowOf(agg_events', agg_now') = FreshSeq(inserted', agg_now')
          /\ snap'.total_count = Cardinality(FreshIdx(inserted', agg_now'))
          /\ \A i \in 1..Len(agg_events') :
               "ts" \notin DOMAIN agg_events'[i] =>
                 snap'.total_count < Len(agg_events')]_vars

\* C16 witness: the loop ingested two events; at the call the first had
\* expired and was evicted, the second was exactly 60 seconds old and was
\* kept and counted.
C16_Witness ==
  /\ program = "main"
  /\ Took
  /\ agg_now = clock
  /\ Len(inserted) = 2
  /\ Len(buffer) = 1
  /\ clock - buffer[1].ts = 60
  /\ snap.total_count = 1

\* a cycle has run on the window observed: not a click the dashboard blocked
RanOnWindow ==
  /\ CycleRan
  /\ ~(program = "app" /\ aggregated.total_count < MIN_SAMPLE_DASHBOARD)

\* C17: the result of a diagnosis does not depend on the history: on the
\* window the cycle diagnosed, every history (the empty one, the log as it
\* is now, any part of it) gives the diagnosis, evidence, proposed action,
\* risk assessment, confidence and human-approval flag the cycle got.
C17_HistoryIndependent ==
  RanOnWindow =>
    \A k \in 0..Len(lessons), n \in 0..Len(lessons) :
      LET r == diagnose_and_decide(aggregated, retrieve(SubSeq(lessons, 1, k), n))
      IN /\ r.diagnosis = result.diagnosis
         /\ r.evidence = result.evidence
         /\ r.proposed_action = result.proposed_action
         /\ r.risk_assessment = result.risk_assessment
         /\ r.confidence_score = result.confidence_score
         /\ r.recommend_human_approval = result.recommend_human_approval

\* C17 witness: a cycle that ran with two lessons in the log, the last of an
\* escalated cycle, and proposed a reroute at 0.82.
C17_Witness ==
  /\ RanOnWindow
  /\ Len(lessons) = 3
  /\ lessons[2].outcome = "ESCALATED"
  /\ result.proposed_action = "Reroute traffic"
  /\ result.confidence_score = 82

\* the action tools invoked so far
ToolCalls ==
  calls.reroute_traffic + calls.suppress_failing_path + calls.adjust_retry_policy

\* a step in which a decision cycle runs to its end
CycleCompletes ==
  /\ pc = "ready"
  /\ pc' = "done"
  /\ ~(program = "app" /\ aggregated.total_count < MIN_SAMPLE_DASHBOARD)

\* C18: a cycle invokes at most one action tool and appends one lesson; the
\* lesson log only grows, by exactly one record per completed cycle and by
\* none otherwise, the earlier records unchanged and in their order.
C18_OneLessonPerCycle ==
  [][/\ Len(lessons') >= Len(lessons)
     /\ SubSeq(lessons', 1, Len(lessons)) = lessons
     /\ Len(lessons') - Len(lessons) = (IF CycleCompletes THEN 1 ELSE 0)
     /\ ToolCalls' - ToolCalls \in {0, 1}
     /\ ~CycleCompletes => calls' = calls]_vars

\* C18 witness: three cycles of the loop, the second of which executed a
\* reroute; the log holds their three lessons in order.
C18_Witness ==
  /\ program = "main"
  /\ cycle = 3
  /\ Len(lessons) = 3
  /\ lessons[1].outcome = "ESCALATED"
  /\ lessons[2].outcome = "EXECUTED"
  /\ lessons[3].outcome = "MONITORED"
  /\ ToolCalls = 1

\* a step in which the dashboard's "Run agent cycle" button is handled
ButtonHandled == program = "app" /\ pc = "ready" /\ pc' = "done"

\* C19: in the dashboard a requested cycle on a snapshot of fewer than 5
\* events does not run: no result is computed, agent_result and
\* action_taken stay, no lesson is appended, no tool or notifier is
\* invoked.  On 5 events or more the cycle runs to its end, and on fewer
\* than 10 it ends in the insufficient-sample result.
C19_SparseClickBlocked ==
  [][ButtonHandled =>
       IF aggregated.total_count < 5
         THEN UNCHANGED <<result, agent_result, action_taken, lessons,
                          calls, st_buffer>>
         ELSE /\ result' # NoResult
              /\ agent_result' = result'
              /\ action_taken' \in {"escalated", "reroute", "no_action"}
              /\ Len(lessons') = Len(lessons) + 1
              /\ aggregated.total_count < 10 =>
                   /\ result'.confidence_score = 40
                   /\ result'.evidence.text
                        = "Insufficient sample size; no reliable diagnosis."
                   /\ lessons'[Len(lessons')].outcome = "ESCALATED"]_vars

\* C19 witness: after a cycle that executed a reroute the button was
\* clicked on a window of 3 events; the reroute is still what the dashboard
\* shows.
C19_Witness ==
  /\ program = "app"
  /\ pc = "done"
  /\ aggregated.total_count < 5
  /\ agent_result # NoResult
  /\ action_taken = "reroute"
  /\ Len(lessons) = 1

\* C20 as stated: get_historical_outcomes(n) returns at most n records, the
\* min(n, length) newest of the log, oldest first; for n = 0 none.
C20_RecentAtMostN ==
  history_n >= 0 =>
    LET m == IF history_n <= Len(lessons) THEN history_n ELSE Len(lessons)
    IN /\ Len(history) <= history_n
       /\ Len(history) = m
       /\ \A i \in 1..m : history[i] = lessons[Len(lessons) - m + i]

\* C21 as stated: no failure aborts the loop; a cycle in which saving the
\* lesson or invoking a tool or the notifier fails still completes, and the
\* loop goes on to its next cycle.
C21_NoFailureAbortsLoop ==
  pc # "aborted"

\* C22: in every cycle of either program the engine gives a confidence of
\* 0.8 or more to "Reroute traffic" (0.82) and "Take no action" (0.82,
\* 0.85) only; so the only tool ever invoked with outcome EXECUTED is the
\* reroute, suppress_failing_path and adjust_retry_policy are never
\* invoked, every proposal to suppress, to adjust the retry policy or to
\* alert ends ESCALATED, and SKIPPED_SAFETY is the outcome of a reroute
\* proposal above the volume limit only.
C22_OnlyRerouteExecuted ==
  CycleRan =>
    /\ result.confidence_score >= 80 =>
         \/ result.proposed_action = "Reroute traffic"
              /\ result.confidence_score = 82
         \/ result.proposed_action = "Take no action"
              /\ result.confidence_score \in {82, 85}
    /\ calls.suppress_failing_path = 0
    /\ calls.adjust_retry_policy = 0
    /\ LastLesson.outcome = "EXECUTED" =>
         /\ result.proposed_action = "Reroute traffic"
         /\ calls = [NoCalls EXCEPT !.reroute_traffic = 1]
    /\ result.proposed_action \in {"Suppress failing path", "Adjust retry policy",
                                   "Alert human operators"} =>
         /\ LastLesson.outcome = "ESCALATED"
         /\ calls = [NoCalls EXCEPT !.alert_ops = 1]
    /\ LastLesson.outcome = "SKIPPED_SAFETY" =>
         /\ result.proposed_action = "Reroute traffic"
         /\ result.confidence_score >= 80
         /\ volume > MAX_AUTONOMOUS_VOLUME

\* C22 witness: the loop, with a volume within the limit, got the proposal
\* to adjust the retry policy; it was escalated and the retry tool was not
\* invoked.
C22_Witness ==
  /\ CycleRan
  /\ program = "main"
  /\ volume <= MAX_AUTONOMOUS_VOLUME
  /\ result.proposed_action = "Adjust retry policy"
  /\ result.confidence_score = 75
  /\ LastLesson.outcome = "ESCALATED"
  /\ calls.adjust_retry_policy = 0

\* a step in which the loop runs a cycle
LoopCycles == program = "main" /\ pc = "ready" /\ pc' = "done"

\* C23: in the loop the volume the guardrail is given counts every event
\* ever ingested: 8 more each cycle, never less, whatever the size of the
\* window.  Once it is above MAX_AUTONOMOUS_VOLUME it stays above, and a
\* cycle at such a volume never ends EXECUTED: its reroute proposal at 0.8
\* or more ends SKIPPED_SAFETY with the operators alerted and no tool
\* invoked.
C23_CumulativeVolumeBlocks ==
  [][program = "main" =>
       /\ volume = EVENTS_PER_CYCLE * cycle
       /\ volume' >= volume
       /\ volume > MAX_AUTONOMOUS_VOLUME => volume' > MAX_AUTONOMOUS_VOLUME
       /\ LoopCycles =>
            /\ volume' = volume + EVENTS_PER_CYCLE
            /\ volume' > MAX_AUTONOMOUS_VOLUME =>
                 /\ lessons'[Len(lessons')].outcome # "EXECUTED"
                 /\ ToolCalls' = ToolCalls
                 /\ (/\ result'.proposed_action = "Reroute traffic"
                     /\ result'.confidence_score >= 80) =>
                      /\ lessons'[Len(lessons')].outcome = "SKIPPED_SAFETY"
                      /\ calls' = alert_ops(calls)]_vars

\* C23 witness: the loop executed a reroute in its second cycle, at volume
\* 16; in its third, at volume 24 and on a window of 16 events, the same
\* proposal was skipped.
C23_Witness ==
  /\ program = "main"
  /\ pc = "done"
  /\ cycle = 3
  /\ volume > MAX_AUTONOMOUS_VOLUME
  /\ aggregated.total_count <= MAX_AUTONOMOUS_VOLUME
  /\ lessons[2].outcome = "EXECUTED"
  /\ result.proposed_action = "Reroute traffic"
  /\ lessons[3].outcome = "SKIPPED_SAFETY"
  /\ calls.reroute_traffic = 1

\* the lesson recorded for a result routed to an outcome
LessonOf(outcome, res) ==
  CASE outcome = "ESCALATED" ->
         Lesson(res.diagnosis, "ALERT_ONLY", "ESCALATED",
                [proposed_action |-> res.proposed_action,
                 confidence |-> res.confidence_score])
    [] outcome = "EXECUTED" ->
         Lesson(res.diagnosis, res.proposed_action, "EXECUTED",
                [action_key |-> get_action_key(res.proposed_action)])
    [] outcome = "SKIPPED_SAFETY" ->
         LessonBare(res.diagnosis, res.proposed_action, "SKIPPED_SAFETY")
    [] outcome = "MONITORED" ->
         LessonBare(res.diagnosis, "Take no action", "MONITORED")

\* what the dashboard invokes for an outcome
AppCallsOf(outcome) ==
  CASE outcome \in {"ESCALATED", "SKIPPED_SAFETY"} -> alert_ops(NoCalls)
    [] outcome = "EXECUTED" -> reroute_traffic(NoCalls)
    [] outcome = "MONITORED" -> NoCalls

\* what the loop invokes for an outcome of a result
MainCallsOf(outcome, res) ==
  CASE outcome \in {"ESCALATED", "SKIPPED_SAFETY"} -> alert_ops(NoCalls)
    [] outcome = "EXECUTED" -> run_action(get_action_key(res.proposed_action), NoCalls)
    [] outcome = "MONITORED" -> NoCalls

\* C24: on every result the engine produces, at the volume of the cycle,
\* the dashboard's routing and the loop's routing give the same outcome,
\* the same lesson and the same invocation, and the cycle, whichever
\* program ran it, recorded that lesson and made that invocation.  On
\* other results the two routings differ only for the keys suppress, retry
\* and alert at a confidence of 0.8 or more, which the engine never gives.
C24_RoutingsAgree ==
  CycleRan =>
    /\ AppOutcome(result, volume) = MainOutcome(result, volume)
    /\ LastLesson = LessonOf(AppOutcome(result, volume), result)
    /\ LastLesson = LessonOf(MainOutcome(result, volume), result)
    /\ calls = AppCallsOf(AppOutcome(result, volume))
    /\ calls = MainCallsOf(MainOutcome(result, volume), result)
    /\ ~(/\ get_action_key(result.proposed_action) \in {"suppress", "retry", "alert"}
         /\ result.confidence_score >= 80)
    /\ \A a \in ACTION_OPTIONS, c \in {79, 80, result.confidence_score} :
         LET res == format_output(result.diagnosis, result.evidence, a,
                                  result.risk_assessment, c)
         IN AppOutcome(res, volume) # MainOutcome(res, volume) =>
              /\ get_action_key(a) \in {"suppress", "retry", "alert"}
              /\ c >= 80
              /\ AppOutcome(res, volume) = "SKIPPED_SAFETY"
              /\ MainOutcome(res, volume) = "EXECUTED"

\* C24 witness: the dashboard skipped a reroute at 0.82 because its buffer
\* held more events than the limit, as the loop's routing would have.
C24_Witness ==
  /\ CycleRan
  /\ program = "app"
  /\ result.proposed_action = "Reroute traffic"
  /\ volume > MAX_AUTONOMOUS_VOLUME
  /\ LastLesson.outcome = "SKIPPED_SAFETY"
  /\ MainOutcome(result, volume) = "SKIPPED_SAFETY"
  /\ AppOutcome(format_output("d", Evidence("e", <<>>), "Suppress failing path", "r", 80),
                MAX_AUTONOMOUS_VOLUME) = "SKIPPED_SAFETY"
  /\ MainOutcome(format_output("d", Evidence("e", <<>>), "Suppress failing path", "r", 80),
                 MAX_AUTONOMOUS_VOLUME) = "EXECUTED"

====
